---- MODULE Spec2Model ----
(***************************************************************************)
(* Subdomain enumeration tool: the scan handler of the Streamlit app       *)
(* (src/Subdomain_Enumeration_Tool.py), its three probes and the thread    *)
(* pool that runs them.                                                    *)
(*                                                                         *)
(* Text is modelled as follows.  A line of a file (or of a process's       *)
(* output, or of a name_value field) is a sequence of tokens; a token is   *)
(* either the whitespace token " " or a non-empty chunk of non-whitespace  *)
(* text.  str.strip() removes the leading and trailing whitespace tokens,  *)
(* and the stripped text is the concatenation of what remains.  A file is  *)
(* the sequence of its lines.  A hostname is a string.                     *)
(***************************************************************************)
EXTENDS Integers, Sequences, FiniteSets, TLC

VARIABLES
    pc,             \* position of the script's main thread
    domains,        \* the domains entered in the sidebar
    use_crtsh,      \* sidebar checkboxes
    use_sublister,
    use_brute,
    max_workers,    \* sidebar slider
    results,        \* st.session_state.results
    logs,           \* st.session_state.logs
    tasks,          \* the (label, domain, future) tuples of the scan
    total_tasks,
    done,
    progress,       \* value shown by the progress bar
    ui,             \* feedback shown by the run (sidebar error / success box)
    script_present, \* whether Sublist3r/sublist3r.py exists
    subdomains_txt, \* the file subdomains.txt in the working directory
    wordlist_file,  \* the file common_subdomains.txt
    logTask,        \* history: for each log entry, the task it is about (0: none)
    finishOrder,    \* history: the tasks in the order their probes returned
    bf              \* harness of the brute-force probe alone (SpecBrute)

vars == <<pc, domains, use_crtsh, use_sublister, use_brute, max_workers,
          results, logs, tasks, total_tasks, done, progress, ui,
          script_present, subdomains_txt, wordlist_file, logTask, finishOrder, bf>>

(***************************************************************************)
(* Bounds of the model.                                                    *)
(***************************************************************************)
MaxDomains == 2     \* longest list of domains entered
MaxWorkers == 2     \* largest slider value explored (the slider allows 1..10)
MaxTasks == 4       \* most tasks of one scan (domains times enabled probes)
MaxWords == 2       \* longest wordlist explored by SpecBrute

DomainPool == {"x.com", "y.com"}

DomainInputs == UNION {[1..n -> DomainPool] : n \in 0..MaxDomains}

Range(s) == {s[i] : i \in 1..Len(s)}

RECURSIVE SetToSeq(_)
SetToSeq(S) == IF S = {} THEN <<>>
               ELSE LET x == CHOOSE y \in S : TRUE
                    IN <<x>> \o SetToSeq(S \ {x})

RECURSIVE SumLen(_)
SumLen(ss) == IF ss = <<>> THEN 0 ELSE Len(Head(ss)) + SumLen(Tail(ss))

(***************************************************************************)
(* Text helpers.                                                           *)
(***************************************************************************)
RECURSIVE lstrip(_)
lstrip(line) == IF line # <<>> /\ Head(line) = " " THEN lstrip(Tail(line)) ELSE line

RECURSIVE rstrip(_)
rstrip(line) == IF line # <<>> /\ line[Len(line)] = " "
                THEN rstrip(SubSeq(line, 1, Len(line) - 1)) ELSE line

RECURSIVE Join(_)
Join(toks) == IF toks = <<>> THEN "" ELSE Head(toks) \o Join(Tail(toks))

\* str.strip(): the text of the line without leading and trailing whitespace
strip(line) == Join(lstrip(rstrip(line)))

\* [l.strip() for l in lines if l.strip()]
RECURSIVE StrippedNonBlank(_)
StrippedNonBlank(lines) ==
    IF lines = <<>> THEN <<>>
    ELSE LET s == strip(Head(lines))
         IN (IF s # "" THEN <<s>> ELSE <<>>) \o StrippedNonBlank(Tail(lines))

\* datetime.utcnow().strftime("%H:%M:%S") is the clock's reading; the entry
\* carries it as a prefix
Stamp(msg) == "[" \o "HH:MM:SS" \o " UTC] " \o msg

log(lg, msg) == Append(lg, Stamp(msg))

(***************************************************************************)
(* Certificate-transparency probe.  A response of crt.sh is a transport or *)
(* parse error, or an HTTP status with the decoded JSON entries; an entry's*)
(* name_value is the sequence of its newline-separated lines.              *)
(***************************************************************************)
CtError == [kind |-> "error", status |-> 0, data |-> <<>>]

CtHttp(status, data) == [kind |-> "http", status |-> status, data |-> data]

CtResponses(domain) ==
    { CtError,
      CtHttp(500, <<>>),
      CtHttp(200, <<>>),
      CtHttp(200, << [name_value |-> << <<"www." \o domain>>, <<"api." \o domain>> >>],
                     [name_value |-> << <<" ", "www." \o domain>>, <<>> >>] >>) }

get_subdomains_crtsh(domain, r) ==
    IF r.kind = "error" THEN <<>>
    ELSE IF r.status # 200 THEN <<>>
    ELSE SetToSeq(UNION {Range(StrippedNonBlank(e.name_value)) : e \in Range(r.data)})

(***************************************************************************)
(* External-tool probe.  subprocess.run either raises (timeout) or returns *)
(* the finished process: its exit status, what it printed, and whether it  *)
(* wrote its -o file.  The probe then reads subdomains.txt if that file    *)
(* exists, whoever wrote it, and the process's output otherwise.           *)
(***************************************************************************)
NoFile == [exists |-> FALSE, lines |-> <<>>]

FileOf(lines) == [exists |-> TRUE, lines |-> lines]

ToolLines(domain) == << <<"dev." \o domain>>, <<"www." \o domain, " ">> >>

Banner == << <<"Sublist3r">>, <<>> >>

ToolRun(kind, rc, wrote, stdout) ==
    [kind |-> kind, rc |-> rc, wrote |-> wrote, stdout |-> stdout]

ToolRuns(domain) ==
    { ToolRun("timeout", 0, FALSE, <<>>),
      ToolRun("exit", 0, TRUE, <<>>),
      ToolRun("exit", 0, FALSE, <<>>),
      ToolRun("exit", 1, FALSE, <<>>),
      ToolRun("exit", 1, FALSE, Banner) }

\* lines 71-75: the output file if present, the captured stdout otherwise
ReadToolOutput(file, stdout) ==
    IF file.exists THEN StrippedNonBlank(file.lines)
    ELSE StrippedNonBlank(stdout)

(***************************************************************************)
(* Brute-force probe.  The wordlist is missing, unreadable, or a file of   *)
(* lines; dns maps a name to the outcome of its A-record resolution.       *)
(***************************************************************************)
Ok(found) == [outcome |-> "ok", result |-> found, err |-> ""]

Raised(e) == [outcome |-> "raised", result |-> <<>>, err |-> e]

resolve(dns, full) == IF full \in DOMAIN dns THEN dns[full] ELSE "NXDOMAIN"

\* a handler that names one exception only: except dns.resolver.NXDOMAIN
SwallowedOnlyNxdomain(e) == e = "NXDOMAIN"

\* lines 93-94: except Exception: pass
Swallowed(e) == TRUE

RECURSIVE Sweep(_, _, _, _)
Sweep(lines, domain, dns, found) ==
    IF lines = <<>> THEN Ok(found)
    ELSE LET sub == strip(Head(lines))
             full == sub \o "." \o domain
             r == resolve(dns, full)
         IN IF sub = "" THEN Sweep(Tail(lines), domain, dns, found)
            ELSE IF r = "ok" THEN Sweep(Tail(lines), domain, dns, Append(found, full))
            ELSE IF Swallowed(r) THEN Sweep(Tail(lines), domain, dns, found)
            ELSE Raised(r)

brute_force_subdomains(domain, wordlist, dns) ==
    IF wordlist.kind = "missing" THEN Ok(<<>>)
    ELSE IF wordlist.kind = "unreadable" THEN Raised("PermissionError")
    ELSE Sweep(wordlist.lines, domain, dns, <<>>)

Missing == [kind |-> "missing", lines |-> <<>>]

Unreadable == [kind |-> "unreadable", lines |-> <<>>]

Wordlist(lines) == [kind |-> "file", lines |-> lines]

WordlistFiles ==
    { Missing, Unreadable,
      Wordlist(<< <<"www">>, <<>>, <<" ", "www">>, <<"mail", " ">> >>) }

Outcomes == {"ok", "NXDOMAIN", "timeout", "SERVFAIL"}

Names(domain) == {"www." \o domain, "mail." \o domain}

DnsOracles(domain) ==
    { [n \in Names(domain) |-> "ok"],
      [n \in Names(domain) |-> "NXDOMAIN"],
      [n \in Names(domain) |-> IF n = "www." \o domain THEN "timeout" ELSE "ok"] }

(***************************************************************************)
(* The scan handler (if run_button: ..., lines 166-227).                   *)
(***************************************************************************)
NoRun == [kind |-> "none", rc |-> 0, spawned |-> FALSE]

Task(label, domain) ==
    [label |-> label, domain |-> domain, state |-> "scheduled", outcome |-> "none",
     result |-> <<>>, err |-> "", stdout |-> <<>>,
     run |-> NoRun,      \* history: what the probe's environment did
     own |-> {}]         \* history: the hostnames the task's own tool run produced

\* lines 195-204: one task per domain and enabled probe, domain-major
TasksOf(domain, c, s, b) ==
    (IF c THEN <<Task("crtsh", domain)>> ELSE <<>>)
    \o (IF s THEN <<Task("sublister", domain)>> ELSE <<>>)
    \o (IF b THEN <<Task("brute", domain)>> ELSE <<>>)

RECURSIVE BuildTasks(_, _, _, _)
BuildTasks(ds, c, s, b) ==
    IF ds = <<>> THEN <<>>
    ELSE TasksOf(Head(ds), c, s, b) \o BuildTasks(Tail(ds), c, s, b)

Flag(x) == IF x THEN 1 ELSE 0

Returned(i, r, run, own) ==
    /\ tasks' = [tasks EXCEPT ![i] = [@ EXCEPT !.state = "finished",
                                               !.outcome = r.outcome,
                                               !.result = r.result,
                                               !.err = r.err,
                                               !.run = run,
                                               !.own = own]]
    /\ finishOrder' = Append(finishOrder, i)

Inputs == <<domains, use_crtsh, use_sublister, use_brute, max_workers>>

Files == <<script_present, subdomains_txt, wordlist_file>>

\* line 166: the button is pressed with the sidebar's current values; the rerun
\* of the script starts with fresh locals (tasks, total_tasks, done)
RunButton ==
    /\ pc = "idle"
    /\ \E ds \in DomainInputs, c \in BOOLEAN, s \in BOOLEAN, b \in BOOLEAN,
          w \in 1..MaxWorkers :
         /\ Len(ds) * (Flag(c) + Flag(s) + Flag(b)) <= MaxTasks
         /\ domains' = ds
         /\ use_crtsh' = c
         /\ use_sublister' = s
         /\ use_brute' = b
         /\ max_workers' = w
         /\ IF ds = <<>>
            THEN /\ ui' = "Please enter at least one domain."
                 /\ pc' = "rejected"
                 /\ total_tasks' = 0
                 /\ done' = 0
                 /\ progress' = 0
                 /\ UNCHANGED <<results, logs, logTask>>
            ELSE /\ results' = {}
                 /\ logs' = log(<<>>, "Scan started")
                 /\ logTask' = <<0>>
                 /\ total_tasks' = Len(ds) * (Flag(c) + Flag(s) + Flag(b))
                 /\ done' = 0
                 /\ progress' = 0
                 /\ ui' = ""
                 /\ pc' = "started"
    /\ tasks' = <<>>
    /\ finishOrder' = <<>>
    /\ UNCHANGED <<Files, bf>>

\* lines 176-204: the first pool's futures hold a tuple in place of the callable,
\* fail inside their workers and are never read; then the state is reset again
\* and the tasks are submitted to the second pool
Reschedule ==
    /\ pc = "started"
    /\ logs' = <<>>
    /\ logTask' = <<>>
    /\ results' = {}
    /\ tasks' = BuildTasks(domains, use_crtsh, use_sublister, use_brute)
    /\ total_tasks' = Len(tasks')
    /\ done' = 0
    /\ finishOrder' = <<>>
    /\ pc' = "collect"
    /\ UNCHANGED <<Inputs, progress, ui, Files, bf>>

Main == <<pc, Inputs, results, logs, logTask, total_tasks, done, progress, ui>>

Running == {i \in 1..Len(tasks) : tasks[i].state \in {"running", "ran"}}

\* a free worker of the pool takes the oldest queued task
WorkerStart(i) ==
    /\ pc = "collect"
    /\ tasks[i].state = "scheduled"
    /\ \A j \in 1..(i - 1) : tasks[j].state # "scheduled"
    /\ Cardinality(Running) < max_workers
    /\ tasks' = [tasks EXCEPT ![i].state = "running"]
    /\ UNCHANGED <<Main, finishOrder, Files, bf>>

RunCrtsh(i) ==
    /\ tasks[i].state = "running"
    /\ tasks[i].label = "crtsh"
    /\ \E r \in CtResponses(tasks[i].domain) :
         Returned(i, Ok(get_subdomains_crtsh(tasks[i].domain, r)), NoRun, {})
    /\ UNCHANGED <<Main, Files, bf>>

RunBrute(i) ==
    /\ tasks[i].state = "running"
    /\ tasks[i].label = "brute"
    /\ \E dns \in DnsOracles(tasks[i].domain) :
         Returned(i, brute_force_subdomains(tasks[i].domain, wordlist_file, dns),
                  [kind |-> wordlist_file.kind, rc |-> 0, spawned |-> FALSE], {})
    /\ UNCHANGED <<Main, Files, bf>>

\* lines 64-69: the existence check and subprocess.run
SublisterSpawn(i) ==
    /\ tasks[i].state = "running"
    /\ tasks[i].label = "sublister"
    /\ IF ~script_present
       THEN /\ Returned(i, Ok(<<>>), [kind |-> "absent", rc |-> 0, spawned |-> FALSE], {})
            /\ UNCHANGED subdomains_txt
       ELSE \E run \in ToolRuns(tasks[i].domain) :
              LET d == tasks[i].domain
                  own == (IF run.wrote THEN Range(StrippedNonBlank(ToolLines(d))) ELSE {})
                         \cup Range(StrippedNonBlank(run.stdout))
                  seen == [kind |-> run.kind, rc |-> run.rc, spawned |-> TRUE]
              IN /\ subdomains_txt' = IF run.wrote THEN FileOf(ToolLines(d))
                                      ELSE subdomains_txt
                 /\ IF run.kind = "timeout"
                    THEN Returned(i, Ok(<<>>), seen, own)
                    ELSE /\ tasks' = [tasks EXCEPT ![i] = [@ EXCEPT !.state = "ran",
                                                                    !.stdout = run.stdout,
                                                                    !.run = seen,
                                                                    !.own = own]]
                         /\ UNCHANGED finishOrder
    /\ UNCHANGED <<Main, script_present, wordlist_file, bf>>

\* lines 70-75
SublisterRead(i) ==
    /\ tasks[i].state = "ran"
    /\ Returned(i, Ok(ReadToolOutput(subdomains_txt, tasks[i].stdout)),
                tasks[i].run, tasks[i].own)
    /\ UNCHANGED <<Main, Files, bf>>

\* fut.result() outside any try: the future's exception ends the run
AfterResultUncaught(t) == IF t.outcome = "raised" THEN "crashed" ELSE "collect"

\* lines 209-213: the future's exception is caught and the loop goes on
AfterResult(t) == "collect"

\* the increment placed in the branch of the non-failing task
TickUnlessFailed(n, t) == IF t.outcome = "raised" THEN n ELSE n + 1

\* line 223
Tick(n, t) == n + 1

\* assignment in place of update
MergeReplacing(res, result) == Range(result)

\* line 217: results.update(result)
Merge(res, result) == res \cup Range(result)

\* lines 208-224: one iteration of the loop over the tasks, in submission order
Collect ==
    /\ pc = "collect"
    /\ done < Len(tasks)
    /\ LET k == done + 1
           t == tasks[k]
           failed == t.outcome = "raised"
           result == IF failed THEN <<>> ELSE t.result
           lg1 == IF failed
                  THEN log(logs, "ERROR " \o t.label \o " " \o t.domain \o ": " \o t.err)
                  ELSE logs
           merged == Merge(results, result)
           new == Cardinality(merged) - Cardinality(results)
       IN /\ t.state = "finished"
          /\ IF result # <<>>
             THEN /\ results' = merged
                  /\ logs' = log(lg1, "[" \o t.label \o "] " \o t.domain \o " -> "
                                      \o ToString(new) \o " new subdomains")
             ELSE /\ results' = results
                  /\ logs' = log(lg1, "[" \o t.label \o "] " \o t.domain \o " -> 0")
          /\ logTask' = logTask \o [n \in 1..(Len(logs') - Len(logs)) |-> k]
          /\ done' = Tick(done, t)
          /\ progress' = (done' * 100) \div total_tasks
          /\ pc' = AfterResult(t)
    /\ UNCHANGED <<Inputs, total_tasks, ui, tasks, finishOrder, Files, bf>>

\* lines 225-227
Finish ==
    /\ pc = "collect"
    /\ done = Len(tasks)
    /\ \A i \in 1..Len(tasks) : tasks[i].state = "finished"
    /\ logs' = log(logs, "Scan completed")
    /\ logTask' = Append(logTask, 0)
    /\ ui' = "Scan finished!"
    /\ pc' = "done"
    /\ UNCHANGED <<Inputs, results, total_tasks, done, progress, tasks,
                   finishOrder, Files, bf>>

\* lines 229-259: the tabs are drawn from session state and the run of the script
\* ends; its locals are gone, st.session_state stays
Render ==
    /\ pc \in {"done", "rejected"}
    /\ pc' = "idle"
    /\ domains' = <<>>
    /\ use_crtsh' = TRUE
    /\ use_sublister' = FALSE
    /\ use_brute' = FALSE
    /\ max_workers' = 1
    /\ tasks' = <<>>
    /\ finishOrder' = <<>>
    /\ logTask' = [p \in 1..Len(logs) |-> 0]
    /\ total_tasks' = 0
    /\ done' = 0
    /\ progress' = 0
    /\ UNCHANGED <<results, logs, ui, Files, bf>>

NoBf == [pc |-> "off"]

Init ==
    /\ pc = "idle"
    /\ domains = <<>>
    /\ use_crtsh = TRUE
    /\ use_sublister = FALSE
    /\ use_brute = FALSE
    /\ max_workers = 1
    /\ results = {}
    /\ logs = <<>>
    /\ logTask = <<>>
    /\ tasks = <<>>
    /\ total_tasks = 0
    /\ done = 0
    /\ progress = 0
    /\ ui = ""
    /\ script_present \in BOOLEAN
    /\ subdomains_txt = NoFile
    /\ wordlist_file \in WordlistFiles
    /\ finishOrder = <<>>
    /\ bf = NoBf

Next ==
    \/ RunButton
    \/ Reschedule
    \/ \E i \in 1..Len(tasks) : WorkerStart(i)
    \/ \E i \in 1..Len(tasks) : RunCrtsh(i)
    \/ \E i \in 1..Len(tasks) : RunBrute(i)
    \/ \E i \in 1..Len(tasks) : SublisterSpawn(i)
    \/ \E i \in 1..Len(tasks) : SublisterRead(i)
    \/ Collect
    \/ Finish
    \/ Render

Spec == Init /\ [][Next]_vars

(***************************************************************************)
(* The brute-force probe on its own: every wordlist of at most MaxWords    *)
(* lines, every assignment of resolution outcomes to the names it forms.   *)
(***************************************************************************)
LinePool == { <<>>, <<" ">>, <<"www">>, <<" ", "www">>, <<"mail">>, <<"mail", " ">> }

WordlistInputs ==
    {Missing} \cup {Wordlist(ls) : ls \in UNION {[1..n -> LinePool] : n \in 0..MaxWords}}

InitBrute ==
    /\ pc = "idle"
    /\ domains = <<>>
    /\ use_crtsh = TRUE
    /\ use_sublister = FALSE
    /\ use_brute = FALSE
    /\ max_workers = 1
    /\ results = {}
    /\ logs = <<>>
    /\ logTask = <<>>
    /\ tasks = <<>>
    /\ total_tasks = 0
    /\ done = 0
    /\ progress = 0
    /\ ui = ""
    /\ script_present = FALSE
    /\ subdomains_txt = NoFile
    /\ wordlist_file = Missing
    /\ finishOrder = <<>>
    /\ \E d \in DomainPool, wl \in WordlistInputs :
         \E dns \in [Names(d) -> Outcomes] :
            bf = [pc |-> "call", domain |-> d, wordlist |-> wl, dns |-> dns,
                  out |-> Ok(<<>>)]

BruteCall ==
    /\ bf.pc = "call"
    /\ bf' = [bf EXCEPT !.pc = "returned",
                        !.out = brute_force_subdomains(bf.domain, bf.wordlist, bf.dns)]
    /\ UNCHANGED <<Main, tasks, finishOrder, Files>>

NextBrute == BruteCall

SpecBrute == InitBrute /\ [][NextBrute]_vars

(***************************************************************************)
(* Properties.                                                             *)
(***************************************************************************)
TaskIds == 1..Len(tasks)

OkTasks == {i \in TaskIds : tasks[i].outcome = "ok"}

FailedTasks == {i \in TaskIds : tasks[i].outcome = "raised"}

UnionOfResults == UNION {Range(tasks[i].result) : i \in OkTasks}

LogPositions(i) == {p \in 1..Len(logs) : logTask[p] = i}

ErrorLine(t) == Stamp("ERROR " \o t.label \o " " \o t.domain \o ": " \o t.err)

EmptyLine(t) == Stamp("[" \o t.label \o "] " \o t.domain \o " -> 0")

ScanStep ==
    \/ \E i \in 1..Len(tasks) : WorkerStart(i)
    \/ \E i \in 1..Len(tasks) : RunCrtsh(i)
    \/ \E i \in 1..Len(tasks) : RunBrute(i)
    \/ \E i \in 1..Len(tasks) : SublisterSpawn(i)
    \/ \E i \in 1..Len(tasks) : SublisterRead(i)
    \/ Collect
    \/ Finish

\* C1: failure isolation.  A task whose probe raised never ends the run: the
\* scan is never stuck or crashed while tasks remain, and when it is done every
\* task was waited for, the Result Set is the union of the results of the tasks
\* that did not raise, each raising task has a log line naming its probe, its
\* domain and the error, and the last log entry is "Scan completed".
C1_FailureIsolation ==
    /\ pc \in {"idle", "rejected", "started", "collect", "done"}
    /\ pc = "collect" => ENABLED ScanStep
    /\ pc = "done" =>
         /\ \A i \in TaskIds : tasks[i].state = "finished"
         /\ Len(tasks) = Len(domains) * (Flag(use_crtsh) + Flag(use_sublister) + Flag(use_brute))
         /\ results = UnionOfResults
         /\ \A i \in FailedTasks :
              \E p \in LogPositions(i) : logs[p] = ErrorLine(tasks[i])
         /\ logs # <<>>
         /\ logs[Len(logs)] = Stamp("Scan completed")

C1_Witness ==
    /\ pc = "done"
    /\ FailedTasks # {}
    /\ \E i \in OkTasks : tasks[i].result # <<>> /\ \E j \in FailedTasks : j < i

\* C2 (as amended): when the scan is done the Result Set is the union of the
\* tasks' results; its size is at most the sum of the lengths of the results and
\* at least the number of distinct hostnames of any one result; and while the
\* scan collects, the Result Set only grows.
C2_UnionOfDistinct ==
    /\ [](pc = "done" =>
            /\ results = UnionOfResults
            /\ Cardinality(results) <= SumLen([i \in TaskIds |-> tasks[i].result])
            /\ \A i \in TaskIds : Cardinality(results) >= Cardinality(Range(tasks[i].result)))
    /\ [][pc = "collect" => results \subseteq results']_vars

C2_Witness ==
    /\ pc = "done"
    /\ \E i, j \in OkTasks :
         /\ i # j
         /\ Range(tasks[i].result) \cap Range(tasks[j].result) # {}
         /\ Range(tasks[i].result) \ Range(tasks[j].result) # {}
         /\ Len(tasks[j].result) > Cardinality(Range(tasks[j].result))

\* C2 (as stated): when the scan is done the Result Set is at least as large as
\* the result of any single task.
C2_AtLeastEachResult ==
    pc = "done" => \A i \in TaskIds : Cardinality(results) >= Len(tasks[i].result)

\* C3: the Progress Counter starts at 0, stays within 0..total_tasks, goes up by
\* exactly one with each task collected, failed or not, changes in no other way
\* during a scan, and equals len(domains) * (number of enabled probes) when the
\* scan is done.
C3_ProgressCounter ==
    /\ [](/\ done \in 0..total_tasks
          /\ pc = "started" => done = 0
          /\ pc \in {"collect", "done"} =>
               /\ total_tasks = Len(tasks)
               /\ \A i \in TaskIds : (LogPositions(i) # {}) <=> (i <= done)
          /\ pc = "done" =>
               done = Len(domains) * (Flag(use_crtsh) + Flag(use_sublister) + Flag(use_brute)))
    /\ [][/\ (pc = "collect" /\ Len(logTask') > Len(logTask) /\ logTask'[Len(logTask')] # 0)
             => done' = done + 1
          /\ (pc = "collect" /\ done' # done) => done' = done + 1]_vars

C3_Witness ==
    /\ pc = "done"
    /\ done = 3
    /\ FailedTasks # {}
    /\ OkTasks # {}

\* C4: when the scan is done the log holds "Scan started", then exactly one
\* entry per task, then "Scan completed": its length is the number of tasks
\* plus 2.
C4_LogShape ==
    pc = "done" =>
        /\ Len(logs) = Len(tasks) + 2
        /\ logs[1] = Stamp("Scan started")
        /\ logs[Len(logs)] = Stamp("Scan completed")
        /\ \A i \in TaskIds : Cardinality(LogPositions(i)) = 1

FinishedBefore(i, j) ==
    \E p, q \in 1..Len(finishOrder) : p < q /\ finishOrder[p] = i /\ finishOrder[q] = j

\* C5: log entries are in completion order: if the probe of task i returned
\* before the probe of task j, every log entry of i precedes every log entry of j.
C5_CompletionOrder ==
    \A i, j \in TaskIds :
        FinishedBefore(i, j) =>
            \A p \in LogPositions(i), q \in LogPositions(j) : p < q

NoProbe == ~(use_crtsh \/ use_sublister \/ use_brute)

\* C6: a press of the button with no domain or with no probe enabled is
\* rejected: the Result Set and the log are left as they were, nothing is
\* scheduled, and an error is shown.
C6_Rejected ==
    [][(pc = "idle" /\ (domains' = <<>> \/ NoProbe'))
         => /\ results' = results
            /\ logs' = logs
            /\ pc' = "rejected"
            /\ ui' \notin {"", "Scan finished!"}]_vars

\* C7: no External-Tool task returns what another task's run of the tool
\* produced: of two External-Tool tasks for different domains, the one never
\* returns a hostname that only the other's run of the tool wrote or printed.
C7_OwnOutputOnly ==
    \A i, j \in TaskIds :
        (/\ tasks[i].label = "sublister" /\ tasks[j].label = "sublister"
         /\ tasks[i].domain # tasks[j].domain
         /\ tasks[i].state = "finished")
            => Range(tasks[i].result) \cap (tasks[j].own \ tasks[i].own) = {}

Unsuccessful(run) == run.kind \in {"absent", "timeout"} \/ run.rc # 0

\* C8: the External-Tool probe returns nothing when the script is absent (and
\* then spawns nothing), when the subprocess times out and when it exits with a
\* non-zero status.
C8_EmptyUnlessSuccessful ==
    \A i \in TaskIds :
        (tasks[i].label = "sublister" /\ tasks[i].state = "finished")
            => /\ Unsuccessful(tasks[i].run) => tasks[i].result = <<>>
               /\ tasks[i].run.kind = "absent" => ~tasks[i].run.spawned

Resolving(d, lines, dns) ==
    {strip(l) \o "." \o d : l \in {x \in Range(lines) : strip(x) # ""
                                      /\ dns[strip(x) \o "." \o d] = "ok"}}

\* C9: for every domain, wordlist file and resolver behaviour the brute-force
\* probe returns, without raising, exactly the names label.domain of the
\* non-blank labels whose resolution succeeded.
C9_ExactlyResolved ==
    (bf.pc = "returned" /\ bf.wordlist.kind = "file") =>
        /\ bf.out.outcome = "ok"
        /\ Range(bf.out.result) = Resolving(bf.domain, bf.wordlist.lines, bf.dns)

C9_Witness ==
    /\ bf.pc = "returned"
    /\ bf.wordlist = Wordlist(<< <<" ", "www">>, <<"mail">> >>)
    /\ bf.dns["www." \o bf.domain] = "timeout"
    /\ bf.dns["mail." \o bf.domain] = "ok"
    /\ bf.out.result = <<"mail." \o bf.domain>>

\* C10: when the wordlist file is missing every brute-force task ends with no
\* result, the scan is done, and the caller is shown something other than the
\* line logged for a task that found nothing.
C10_MissingWordlistWarned ==
    pc = "done" =>
        \A i \in TaskIds :
            (tasks[i].label = "brute" /\ tasks[i].run.kind = "missing")
                => /\ tasks[i].outcome = "ok" /\ tasks[i].result = <<>>
                   /\ \/ ui # "Scan finished!"
                      \/ \E p \in LogPositions(i) : logs[p] # EmptyLine(tasks[i])

====
